---- MODULE Spec2Model ----
(***************************************************************************)
(* Model of the brief mail library: the part validator, the address and    *)
(* mailbox parsers (mail/ and the older address.rs), the Return-Path       *)
(* header renderer and the typestate MessageBuilder.                       *)
(*                                                                         *)
(* Text is a sequence of Unicode code points (a Rust char is a code        *)
(* point), so "a@a" is <<97, 64, 97>>.  Option<T> is <<>> for None and     *)
(* <<v>> for Some(v).  Result<T, E> is <<"Ok", v>> or <<"Err", e>>; an     *)
(* enum variant is a tuple of its name and its payload.                    *)
(***************************************************************************)
EXTENDS Integers, Sequences, FiniteSets, TLC

VARIABLES
    op,        \* the function that was called, "idle" before the call
    args,      \* its arguments: a sequence of texts
    result,    \* what it returned
    from_set,  \* MessageBuilder: the FROM type parameter, "No" or "Yes"
    to_set,    \* MessageBuilder: the TO type parameter, "No" or "Yes"
    from,      \* MessageBuilder.from
    to,        \* MessageBuilder.to
    message,   \* Option<Message>: the Message build() returned last
    calls      \* the builder calls made so far, each <<method, argument>>

vars == <<op, args, result, from_set, to_set, from, to, message, calls>>

(***************************************************************************)
(* Bounds of the model.                                                    *)
(***************************************************************************)
\* longest text handed to validate_part, Address::try_from and the header
MaxLen == 4
\* longest user, domain or name handed to a try_new
MaxPart == 2
\* longest name before the padding of a composed mailbox text
MaxPre == 1
\* most spaces between the name and '<' of a composed mailbox text
MaxPad == 1
\* longest text between '<' and '>' of a composed mailbox text
MaxMid == 3
\* longest address text handed to the MessageBuilder
MaxAddr == 1
\* most builder calls in one run
MaxCalls == 4

(***************************************************************************)
(* Characters and texts.                                                   *)
(***************************************************************************)
\* the character literals the code names, as code points
Chr == [lt |-> 60, gt |-> 62, at |-> 64, comma |-> 44, space |-> 32,
        a |-> 97, eacute |-> 233]

\* the characters the inputs are drawn from: a letter, a space, the three
\* separators, one more forbidden character and one non-ASCII character
Alphabet == {Chr.a, Chr.space, Chr.lt, Chr.gt, Chr.at, Chr.comma, Chr.eacute}

Strings(n) == UNION {[1..k -> Alphabet] : k \in 0..n}

None == <<>>
Some(v) == <<v>>
Ok(v) == <<"Ok", v>>
Err(e) == <<"Err", e>>
IsOk(r) == r[1] = "Ok"
IsErr(r) == r[1] = "Err"

\* char::is_ascii
is_ascii(c) == c <= 127

\* char::is_whitespace (the White_Space code points up to U+00FF)
is_whitespace(c) == c \in {9, 10, 11, 12, 13, 32, 133, 160}

\* str::find(char): the 0-based position of the first c, scanning from the left
RECURSIVE find_from(_, _, _)
find_from(s, c, i) ==
    IF i > Len(s) THEN None
    ELSE IF s[i] = c THEN Some(i - 1)
    ELSE find_from(s, c, i + 1)

find(s, c) == find_from(s, c, 1)

\* str::rfind(char): the 0-based position of the last c
RECURSIVE rfind_from(_, _, _)
rfind_from(s, c, i) ==
    IF i < 1 THEN None
    ELSE IF s[i] = c THEN Some(i - 1)
    ELSE rfind_from(s, c, i - 1)

rfind(s, c) == rfind_from(s, c, Len(s))

\* str::contains(char)
contains(s, c) == find(s, c) # None

\* str::split_once(char): Some(<<before, after>>) around the first c
split_once(s, c) ==
    LET p == find(s, c) IN
    IF p = None THEN None
    ELSE Some(<<SubSeq(s, 1, p[1]), SubSeq(s, p[1] + 2, Len(s))>>)

\* str::rsplitn(2, char): the pieces in the order the iterator yields them,
\* the text after the last c first, then all the text before it
rsplitn2(s, c) ==
    LET p == rfind(s, c) IN
    IF p = None THEN <<s>>
    ELSE <<SubSeq(s, p[1] + 2, Len(s)), SubSeq(s, 1, p[1])>>

\* str::splitn(2, char), in iterator order: split at the first c
splitn2(s, c) ==
    LET p == find(s, c) IN
    IF p = None THEN <<s>>
    ELSE <<SubSeq(s, 1, p[1]), SubSeq(s, p[1] + 2, Len(s))>>

\* str::trim_start, str::trim_end, str::trim
RECURSIVE trim_start(_)
trim_start(s) ==
    IF s # <<>> /\ is_whitespace(Head(s)) THEN trim_start(Tail(s)) ELSE s

RECURSIVE trim_end(_)
trim_end(s) ==
    IF s # <<>> /\ is_whitespace(s[Len(s)])
    THEN trim_end(SubSeq(s, 1, Len(s) - 1)) ELSE s

trim(s) == trim_end(trim_start(s))

(***************************************************************************)
(* mail/validate.rs                                                        *)
(***************************************************************************)
\* < > ( ) [ ] \ , ; : @ "
FORBIDDEN_CHARS == <<60, 62, 40, 41, 91, 93, 92, 44, 59, 58, 64, 34>>

\* [char; 12]::contains
is_forbidden(c) == \E k \in 1..Len(FORBIDDEN_CHARS) : FORBIDDEN_CHARS[k] = c

\* part.chars().find(|c| !c.is_ascii())
RECURSIVE find_non_ascii(_)
find_non_ascii(s) ==
    IF s = <<>> THEN None
    ELSE IF ~is_ascii(Head(s)) THEN Some(Head(s))
    ELSE find_non_ascii(Tail(s))

\* part.chars().find(|c| FORBIDDEN_CHARS.contains(c))
RECURSIVE find_forbidden(_)
find_forbidden(s) ==
    IF s = <<>> THEN None
    ELSE IF is_forbidden(Head(s)) THEN Some(Head(s))
    ELSE find_forbidden(Tail(s))

\* a plausible slip: the forbidden-character scan runs before the ASCII scan
validate_part_forbidden_first(part) ==
    IF part = <<>> THEN Err(<<"IsEmpty">>)
    ELSE IF find_forbidden(part) # None
         THEN Err(<<"ContainsForbiddenCharacter", find_forbidden(part)[1]>>)
    ELSE IF find_non_ascii(part) # None
         THEN Err(<<"ContainsNonAsciiCharacter", find_non_ascii(part)[1]>>)
    ELSE Ok(<<>>)

validate_part(part) ==
    IF part = <<>> THEN Err(<<"IsEmpty">>)
    ELSE LET c == find_non_ascii(part) IN
         IF c # None THEN Err(<<"ContainsNonAsciiCharacter", c[1]>>)
         ELSE LET f == find_forbidden(part) IN
              IF f # None THEN Err(<<"ContainsForbiddenCharacter", f[1]>>)
              ELSE Ok(<<>>)

(***************************************************************************)
(* mail/address.rs                                                         *)
(***************************************************************************)
\* #[derive(Default)] on Address: both parts are the empty &str
mail_Address_default == [user |-> <<>>, domain |-> <<>>]

mail_Address_try_new(user, domain) ==
    LET vu == validate_part(user) IN
    IF IsErr(vu) THEN Err(<<"InvalidUser", vu[2]>>)
    ELSE LET vd == validate_part(domain) IN
         IF IsErr(vd) THEN Err(<<"InvalidDomain", vd[2]>>)
         ELSE Ok([user |-> user, domain |-> domain])

\* a plausible slip: splitn in place of rsplitn, the leftmost '@' separates
mail_Address_try_from_leftmost(value) ==
    IF ~contains(value, Chr.at) THEN Err(<<"MissingUserOrDomain">>)
    ELSE LET split == splitn2(value, Chr.at)
             user == split[1]
             domain == IF Len(split) >= 2 THEN split[2] ELSE <<>>
         IN mail_Address_try_new(user, domain)

\* a plausible slip: the two pieces of rsplitn taken in the wrong order
mail_Address_try_from_swapped(value) ==
    IF ~contains(value, Chr.at) THEN Err(<<"MissingUserOrDomain">>)
    ELSE LET split == rsplitn2(value, Chr.at)
             user == IF Len(split) >= 1 THEN split[1] ELSE <<>>
             domain == IF Len(split) >= 2 THEN split[2] ELSE <<>>
         IN mail_Address_try_new(user, domain)

mail_Address_try_from(value) ==
    IF ~contains(value, Chr.at) THEN Err(<<"MissingUserOrDomain">>)
    ELSE LET split == rsplitn2(value, Chr.at)
             domain == IF Len(split) >= 1 THEN split[1] ELSE <<>>
             user == IF Len(split) >= 2 THEN split[2] ELSE <<>>
             vu == validate_part(user)
         IN IF IsErr(vu) THEN Err(<<"InvalidUser", vu[2]>>)
            ELSE LET vd == validate_part(domain) IN
                 IF IsErr(vd) THEN Err(<<"InvalidDomain", vd[2]>>)
                 ELSE mail_Address_try_new(user, domain)

(***************************************************************************)
(* mail/mailbox.rs                                                         *)
(***************************************************************************)
\* impl From<ParseAddressError> for ParseMailboxError, applied by `?`
mail_ParseMailboxError_from(value) == <<"InvalidAddress", value>>

mail_Mailbox_try_new(name, address) ==
    LET v == IF name # None THEN validate_part(name[1]) ELSE Ok(<<>>) IN
    IF IsErr(v) THEN Err(<<"InvalidName", v[2]>>)
    ELSE Ok([name |-> name, address |-> address])

\* what follows the bracket scan when '<' stands before '>'
mail_Mailbox_try_from_proceed(value) ==
    LET name_str == split_once(value, Chr.lt)[1][1]
        rest == split_once(value, Chr.lt)[1][2]
        address_str == split_once(rest, Chr.gt)[1][1]
        name == IF name_str # <<>> THEN Some(name_str) ELSE None
        address == mail_Address_try_from(address_str)
    IN IF IsErr(address) THEN Err(mail_ParseMailboxError_from(address[2]))
       ELSE Ok([name |-> name, address |-> address[2]])

\* a plausible slip: the closing bracket searched from the right
mail_Mailbox_try_from_rfind(value) ==
    LET left == find(value, Chr.lt)
        right == rfind(value, Chr.gt)
    IN IF left = None /\ right = None THEN Err(<<"MissingAngleBrackets">>)
       ELSE IF left = None THEN Err(<<"MissingOpeningAngleBracket">>)
       ELSE IF right = None THEN Err(<<"MissingClosingAngleBracket">>)
       ELSE IF left[1] > right[1] THEN Err(<<"WrongOrderAngleBrackets">>)
       ELSE mail_Mailbox_try_from_proceed(value)

mail_Mailbox_try_from(value) ==
    LET left == find(value, Chr.lt)
        right == find(value, Chr.gt)
    IN IF left = None /\ right = None THEN Err(<<"MissingAngleBrackets">>)
       ELSE IF left = None THEN Err(<<"MissingOpeningAngleBracket">>)
       ELSE IF right = None THEN Err(<<"MissingClosingAngleBracket">>)
       ELSE IF left[1] > right[1] THEN Err(<<"WrongOrderAngleBrackets">>)
       ELSE mail_Mailbox_try_from_proceed(value)

(***************************************************************************)
(* address.rs, the older parser                                            *)
(***************************************************************************)
\* s.contains(&['@', '<', '>'])
contains_any(s, cs) == \E i \in 1..Len(s) : s[i] \in cs

\* str::is_ascii
str_is_ascii(s) == \A i \in 1..Len(s) : is_ascii(s[i])

address_User_from_str(s) ==
    IF contains_any(s, {Chr.at, Chr.lt, Chr.gt})
    THEN Err(<<"ContainsForiddenCharacters">>)
    ELSE IF ~str_is_ascii(s) THEN Err(<<"ContainsNonAsciiCharacters">>)
    ELSE Ok(s)

address_Domain_from_str(s) ==
    IF contains_any(s, {Chr.at, Chr.lt, Chr.gt})
    THEN Err(<<"ContainsForiddenCharacters">>)
    ELSE IF ~str_is_ascii(s) THEN Err(<<"ContainsNonAsciiCharacters">>)
    ELSE Ok(s)

address_Name_from_str(s) ==
    IF contains_any(s, {Chr.at, Chr.lt, Chr.gt})
    THEN Err(<<"ContainsForiddenCharacters">>)
    ELSE IF ~str_is_ascii(s) THEN Err(<<"ContainsNonAsciiCharacters">>)
    ELSE Ok(s)

address_Address_from_str(s) ==
    LET trimmed == trim(s) IN
    IF ~contains(trimmed, Chr.at) THEN Err(<<"MissingUserOrDomainError">>)
    ELSE LET split == rsplitn2(s, Chr.at)
             user == address_User_from_str(split[2])
         IN IF IsErr(user) THEN Err(<<"InvalidUser", user[2]>>)
            ELSE LET domain == address_Domain_from_str(split[1]) IN
                 IF IsErr(domain) THEN Err(<<"InvalidDomain", domain[2]>>)
                 ELSE Ok([user |-> user[2], domain |-> domain[2]])

\* impl Display for Address: "{}@{}"
address_Address_fmt(user, domain) == user \o <<Chr.at>> \o domain

address_MailBox_from_str(s) ==
    LET trimmed == trim(s)
        left == find(trimmed, Chr.lt)
        right == find(trimmed, Chr.gt)
    IN IF left = None /\ right = None THEN Err(<<"MissingAngleBrackets">>)
       ELSE IF left = None THEN Err(<<"MissingOpeningAngleBracket">>)
       ELSE IF right = None THEN Err(<<"MissingClosingAngleBracket">>)
       ELSE IF left[1] > right[1] THEN Err(<<"InvalidOrderOfAngleBrackets">>)
       ELSE LET split == split_once(trimmed, Chr.lt)[1]
                name == IF split[1] # <<>> THEN Some(trim(split[1])) ELSE None
                address == split_once(split[2], Chr.gt)[1][1]
                n == IF name # None THEN address_Name_from_str(name[1])
                     ELSE Ok(<<>>)
            IN IF IsErr(n) THEN Err(<<"InvalidName", n[2]>>)
               ELSE LET a == address_Address_from_str(address) IN
                    IF IsErr(a) THEN Err(<<"InvalidAddress", a[2]>>)
                    ELSE Ok([name |-> name, address |-> a[2]])

(***************************************************************************)
(* header.rs                                                               *)
(***************************************************************************)
\* #[derive(Default)] on EmailAddress: the empty String
EmailAddress_default == [address |-> <<>>]

\* impl FromStr for EmailAddress: every text is accepted
EmailAddress_from_str(s) == Ok([address |-> s])

\* Header::ReturnPath(EmailAddress)
ReturnPath(a) == <<"ReturnPath", a>>

\* "Return-Path"
Header_name(h) == <<82, 101, 116, 117, 114, 110, 45, 80, 97, 116, 104>>

\* format!("<{}>", "email@addres.com"): the payload is not read
Header_body(h) == <<Chr.lt>> \o <<101, 109, 97, 105, 108, 64, 97, 100, 100, 114, 101, 115, 46, 99, 111, 109>> \o <<Chr.gt>>

\* format!("{}: {}", self.name(), self.body())
Header_to_string(h) == Header_name(h) \o <<58, 32>> \o Header_body(h)

(***************************************************************************)
(* The state before any call, and the builder fields while only pure       *)
(* functions are called.                                                   *)
(***************************************************************************)
Idle ==
    /\ op = "idle"
    /\ result = None

NoBuilder ==
    /\ from_set = "No"
    /\ to_set = "No"
    /\ from = EmailAddress_default
    /\ to = EmailAddress_default
    /\ message = None
    /\ calls = <<>>

BuilderUnchanged == UNCHANGED <<from_set, to_set, from, to, message, calls>>

(***************************************************************************)
(* SpecPart: validate_part applied to every text up to MaxLen.             *)
(***************************************************************************)
InitPart ==
    /\ Idle
    /\ args \in {<<s>> : s \in Strings(MaxLen)}
    /\ NoBuilder

ValidatePart ==
    /\ op = "idle"
    /\ Len(args) = 1
    /\ op' = "validate_part"
    /\ result' = validate_part(args[1])
    /\ UNCHANGED args
    /\ BuilderUnchanged

NextPart == ValidatePart

SpecPart == InitPart /\ [][NextPart]_vars

(***************************************************************************)
(* SpecAddress: the three ways to an Address of mail/address.rs, each on    *)
(* its own arguments: none for default(), one text for try_from, a user    *)
(* and a domain for try_new.                                               *)
(***************************************************************************)
InitAddress ==
    /\ Idle
    /\ args \in {<<>>}
            \cup {<<s>> : s \in Strings(MaxLen)}
            \cup {<<u, d>> : u \in Strings(MaxPart), d \in Strings(MaxPart)}
    /\ NoBuilder

AddressDefault ==
    /\ op = "idle"
    /\ Len(args) = 0
    /\ op' = "Address::default"
    /\ result' = Ok(mail_Address_default)
    /\ UNCHANGED args
    /\ BuilderUnchanged

AddressTryFrom ==
    /\ op = "idle"
    /\ Len(args) = 1
    /\ op' = "Address::try_from"
    /\ result' = mail_Address_try_from(args[1])
    /\ UNCHANGED args
    /\ BuilderUnchanged

AddressTryNew ==
    /\ op = "idle"
    /\ Len(args) = 2
    /\ op' = "Address::try_new"
    /\ result' = mail_Address_try_new(args[1], args[2])
    /\ UNCHANGED args
    /\ BuilderUnchanged

NextAddress == AddressDefault \/ AddressTryFrom \/ AddressTryNew

SpecAddress == InitAddress /\ [][NextAddress]_vars

(***************************************************************************)
(* SpecMailbox: the mailbox parsers on one text, and Mailbox::try_new on   *)
(* an optional name and an Address some constructor returned.  The texts   *)
(* are every text up to MaxLen and every text of the shape                 *)
(* pre pad '<' mid '>' with pre up to MaxPre, pad up to MaxPad spaces and  *)
(* mid up to MaxMid.                                                       *)
(***************************************************************************)
Spaces(n) == UNION {[1..k -> {Chr.space}] : k \in 0..n}

\* the Address values the constructors of mail/address.rs hand out
Addresses ==
    {mail_Address_default}
    \cup {a \in [user : Strings(MaxPart), domain : Strings(MaxPart)] :
             mail_Address_try_new(a.user, a.domain) = Ok(a)}

InitMailbox ==
    /\ Idle
    /\ \/ \E s \in Strings(MaxLen) : args = <<s>>
       \/ \E pre \in Strings(MaxPre), pad \in Spaces(MaxPad),
             mid \in Strings(MaxMid) :
             args = <<pre \o pad \o <<Chr.lt>> \o mid \o <<Chr.gt>> >>
       \/ \E a \in Addresses : args = <<a.user, a.domain>>
       \/ \E n \in Strings(MaxPart), a \in Addresses :
             args = <<n, a.user, a.domain>>
    /\ NoBuilder

MailboxTryFrom ==
    /\ op = "idle"
    /\ Len(args) = 1
    /\ op' = "Mailbox::try_from"
    /\ result' = mail_Mailbox_try_from(args[1])
    /\ UNCHANGED args
    /\ BuilderUnchanged

\* try_new(None, address) on two arguments, try_new(Some(name), address) on
\* three
MailboxTryNew ==
    /\ op = "idle"
    /\ Len(args) \in {2, 3}
    /\ op' = "Mailbox::try_new"
    /\ result' = IF Len(args) = 3
                 THEN mail_Mailbox_try_new(Some(args[1]),
                          [user |-> args[2], domain |-> args[3]])
                 ELSE mail_Mailbox_try_new(None,
                          [user |-> args[1], domain |-> args[2]])
    /\ UNCHANGED args
    /\ BuilderUnchanged

MailBoxFromStr ==
    /\ op = "idle"
    /\ Len(args) = 1
    /\ op' = "MailBox::from_str"
    /\ result' = address_MailBox_from_str(args[1])
    /\ UNCHANGED args
    /\ BuilderUnchanged

NextMailbox == MailboxTryFrom \/ MailboxTryNew \/ MailBoxFromStr

SpecMailbox == InitMailbox /\ [][NextMailbox]_vars

(***************************************************************************)
(* SpecHeader: the Return-Path header of every address text up to MaxLen.  *)
(***************************************************************************)
InitHeader ==
    /\ Idle
    /\ args \in {<<s>> : s \in Strings(MaxLen)}
    /\ NoBuilder

\* the header whose payload is the argument, parsed
HeaderOfArgs == ReturnPath(EmailAddress_from_str(args[1])[2])

HeaderName ==
    /\ op = "idle"
    /\ op' = "Header::name"
    /\ result' = Header_name(HeaderOfArgs)
    /\ UNCHANGED args
    /\ BuilderUnchanged

HeaderBody ==
    /\ op = "idle"
    /\ op' = "Header::body"
    /\ result' = Header_body(HeaderOfArgs)
    /\ UNCHANGED args
    /\ BuilderUnchanged

HeaderToString ==
    /\ op = "idle"
    /\ op' = "Header::to_string"
    /\ result' = Header_to_string(HeaderOfArgs)
    /\ UNCHANGED args
    /\ BuilderUnchanged

NextHeader == HeaderName \/ HeaderBody \/ HeaderToString

SpecHeader == InitHeader /\ [][NextHeader]_vars

(***************************************************************************)
(* message2.rs: the typestate builder.  The type parameters FROM and TO    *)
(* are the fields from_set and to_set; a method of impl MessageBuilder<No, *)
(* TO> can be called only while from_set is "No", which is its guard.      *)
(***************************************************************************)
\* the addresses handed to the builder: EmailAddress::from_str takes any text
EmailAddresses == {EmailAddress_from_str(s)[2] : s \in Strings(MaxAddr)}

\* message_builder(): MessageBuilder::<No, No>::default()
message_builder ==
    /\ from_set = "No"
    /\ to_set = "No"
    /\ from = EmailAddress_default
    /\ to = EmailAddress_default

\* a plausible slip: from() offered in every state (impl<FROM, TO>)
MessageBuilder_from_any_state(a) ==
    /\ Len(calls) < MaxCalls
    /\ from_set' = "Yes"
    /\ to_set' = to_set
    /\ from' = a
    /\ to' = to
    /\ calls' = Append(calls, <<"from", a>>)
    /\ UNCHANGED <<message, op, args, result>>

\* impl<TO> MessageBuilder<No, TO>::from
MessageBuilder_from(a) ==
    /\ from_set = "No"
    /\ Len(calls) < MaxCalls
    /\ from_set' = "Yes"
    /\ to_set' = to_set
    /\ from' = a
    /\ to' = to
    /\ calls' = Append(calls, <<"from", a>>)
    /\ UNCHANGED <<message, op, args, result>>

\* a plausible slip: to() rebuilds the builder from defaults and drops from
MessageBuilder_to_drops_from(a) ==
    /\ to_set = "No"
    /\ Len(calls) < MaxCalls
    /\ from_set' = from_set
    /\ to_set' = "Yes"
    /\ from' = EmailAddress_default
    /\ to' = a
    /\ calls' = Append(calls, <<"to", a>>)
    /\ UNCHANGED <<message, op, args, result>>

\* impl<FROM> MessageBuilder<FROM, No>::to
MessageBuilder_to(a) ==
    /\ to_set = "No"
    /\ Len(calls) < MaxCalls
    /\ from_set' = from_set
    /\ to_set' = "Yes"
    /\ from' = from
    /\ to' = a
    /\ calls' = Append(calls, <<"to", a>>)
    /\ UNCHANGED <<message, op, args, result>>

\* impl MessageBuilder<Yes, Yes>::build, which borrows the builder
MessageBuilder_build ==
    /\ from_set = "Yes"
    /\ to_set = "Yes"
    /\ Len(calls) < MaxCalls
    /\ message' = Some([from |-> from, to |-> to])
    /\ calls' = Append(calls, <<"build">>)
    /\ UNCHANGED <<from_set, to_set, from, to, op, args, result>>

InitBuilder ==
    /\ Idle
    /\ args = <<>>
    /\ message_builder
    /\ message = None
    /\ calls = <<>>

SetFrom == \E a \in EmailAddresses : MessageBuilder_from(a)
SetTo == \E a \in EmailAddresses : MessageBuilder_to(a)
Build == MessageBuilder_build

NextBuilder == SetFrom \/ SetTo \/ Build

SpecBuilder == InitBuilder /\ [][NextBuilder]_vars

(***************************************************************************)
(* What Part validation demands, stated over positions: the claims are     *)
(* measured against these.                                                 *)
(***************************************************************************)
ForbiddenSet == {60, 62, 40, 41, 91, 93, 92, 44, 59, 58, 64, 34}

NonAsciiAt(s) == {i \in 1..Len(s) : s[i] > 127}
ForbiddenAt(s) == {i \in 1..Len(s) : s[i] \in ForbiddenSet}
Least(S) == CHOOSE i \in S : \A j \in S : i <= j
Greatest(S) == CHOOSE i \in S : \A j \in S : j <= i

ValidPart(s) == Len(s) > 0 /\ NonAsciiAt(s) = {} /\ ForbiddenAt(s) = {}

\* the error Part validation is said to give an invalid s
PartError(s) ==
    IF Len(s) = 0 THEN <<"IsEmpty">>
    ELSE IF NonAsciiAt(s) # {}
         THEN <<"ContainsNonAsciiCharacter", s[Least(NonAsciiAt(s))]>>
    ELSE <<"ContainsForbiddenCharacter", s[Least(ForbiddenAt(s))]>>

\* C9: validate_part gives IsEmpty for the empty text, else
\* ContainsNonAsciiCharacter(c) with c the first non-ASCII character (also
\* when a forbidden character comes earlier), else
\* ContainsForbiddenCharacter(f) with f the first forbidden character, else
\* success.
C9_ValidatePartClassifies ==
    op = "validate_part" =>
        LET s == args[1] IN
        result = IF ValidPart(s) THEN Ok(<<>>) ELSE Err(PartError(s))

\* a forbidden character stands before a non-ASCII one and the non-ASCII
\* one is reported
C9_Witness ==
    /\ op = "validate_part"
    /\ \E i, j \in 1..Len(args[1]) :
          /\ i < j
          /\ args[1][i] \in ForbiddenSet
          /\ args[1][j] > 127
    /\ result = Err(<<"ContainsNonAsciiCharacter", Chr.eacute>>)

(***************************************************************************)
(* Mailbox::try_from and MailBox::from_str: the bracket scan.              *)
(***************************************************************************)
LtAt(s) == {i \in 1..Len(s) : s[i] = 60}
GtAt(s) == {i \in 1..Len(s) : s[i] = 62}

\* the class of s by its first '<' and first '>', the wrong-order class
\* under the name given
BracketClass(s, wrongOrder) ==
    IF LtAt(s) = {} /\ GtAt(s) = {} THEN "MissingAngleBrackets"
    ELSE IF LtAt(s) = {} THEN "MissingOpeningAngleBracket"
    ELSE IF GtAt(s) = {} THEN "MissingClosingAngleBracket"
    ELSE IF Least(LtAt(s)) > Least(GtAt(s)) THEN wrongOrder
    ELSE "proceed"

\* r is the outcome the class of s calls for: the class's own error and no
\* Mailbox, or, for "proceed", whatever the name and the address give
Classified(s, r, wrongOrder) ==
    LET c == BracketClass(s, wrongOrder) IN
    IF c = "proceed"
    THEN IsOk(r) \/ r[2][1] \in {"InvalidName", "InvalidAddress"}
    ELSE r = Err(<<c>>)

\* C1, as amended: the mailbox parsers classify every input by its first
\* '<' and first '>' into MissingAngleBrackets, MissingOpeningAngleBracket,
\* MissingClosingAngleBracket, the wrong-order error, or go on to the name
\* and address; the wrong-order error is WrongOrderAngleBrackets in
\* mail::Mailbox::try_from and InvalidOrderOfAngleBrackets in the older
\* address::MailBox::from_str.
C1_BracketsClassified ==
    /\ op = "Mailbox::try_from" =>
           Classified(args[1], result, "WrongOrderAngleBrackets")
    /\ op = "MailBox::from_str" =>
           Classified(args[1], result, "InvalidOrderOfAngleBrackets")

\* C1 as stated: Mailbox::try_from reports the wrong order as
\* InvalidOrderOfAngleBrackets.
C1_AsStated ==
    op = "Mailbox::try_from" =>
        Classified(args[1], result, "InvalidOrderOfAngleBrackets")

\* the first '>' stands before the first '<', a second '>' follows the '<',
\* and Mailbox::try_from reports the wrong order
C1_Witness ==
    /\ op = "Mailbox::try_from"
    /\ LtAt(args[1]) # {}
    /\ GtAt(args[1]) # {}
    /\ Least(GtAt(args[1])) < Least(LtAt(args[1]))
    /\ Greatest(GtAt(args[1])) > Least(LtAt(args[1]))
    /\ result = Err(<<"WrongOrderAngleBrackets">>)

(***************************************************************************)
(* Address::try_from and Address::try_new.                                 *)
(***************************************************************************)
AtAt(s) == {i \in 1..Len(s) : s[i] = 64}

\* C2: Address::try_from fails with MissingUserOrDomain without an '@';
\* otherwise, user and domain being the text before and after the rightmost
\* '@', it fails with InvalidUser(e) when the user is invalid, else with
\* InvalidDomain(e) when the domain is, else succeeds; "@d" gives
\* InvalidUser(IsEmpty), "u@" gives InvalidDomain(IsEmpty), and two or more
\* '@' always give an InvalidUser error.
C2_AddressParse ==
    op = "Address::try_from" =>
        LET s == args[1] IN
        IF AtAt(s) = {} THEN result = Err(<<"MissingUserOrDomain">>)
        ELSE LET k == Greatest(AtAt(s))
                 user == SubSeq(s, 1, k - 1)
                 domain == SubSeq(s, k + 1, Len(s))
             IN /\ result =
                     IF ~ValidPart(user)
                     THEN Err(<<"InvalidUser", PartError(user)>>)
                     ELSE IF ~ValidPart(domain)
                     THEN Err(<<"InvalidDomain", PartError(domain)>>)
                     ELSE Ok([user |-> user, domain |-> domain])
                /\ k = 1 => result = Err(<<"InvalidUser", <<"IsEmpty">> >>)
                /\ (k = Len(s) /\ ValidPart(user)) =>
                       result = Err(<<"InvalidDomain", <<"IsEmpty">> >>)
                /\ Cardinality(AtAt(s)) >= 2 =>
                       IsErr(result) /\ result[2][1] = "InvalidUser"

\* a text with two '@' and a valid text before the first one is refused
\* for the '@' in its user
C2_Witness ==
    /\ op = "Address::try_from"
    /\ Cardinality(AtAt(args[1])) >= 2
    /\ ValidPart(SubSeq(args[1], 1, Least(AtAt(args[1])) - 1))
    /\ result = Err(<<"InvalidUser", <<"ContainsForbiddenCharacter", 64>> >>)

\* C3: for valid user and domain, parsing user "@" domain succeeds with
\* exactly Address{user, domain}, the value try_new(user, domain) returns.
C3_AddressRoundTrip ==
    op = "Address::try_from" =>
        \A i \in 1..Len(args[1]) :
            LET user == SubSeq(args[1], 1, i - 1)
                domain == SubSeq(args[1], i + 1, Len(args[1]))
            IN (/\ ValidPart(user)
                /\ ValidPart(domain)
                /\ args[1] = address_Address_fmt(user, domain))
               => /\ result = Ok([user |-> user, domain |-> domain])
                  /\ result = mail_Address_try_new(user, domain)

\* a formatted address whose user and domain differ was parsed
C3_Witness ==
    /\ op = "Address::try_from"
    /\ IsOk(result)
    /\ result[2].user # result[2].domain
    /\ args[1] = address_Address_fmt(result[2].user, result[2].domain)

\* C10: every Address a public constructor (try_new, try_from, the derived
\* Default) returns has a user and a domain that pass Part validation.
C10_AddressPartsValid ==
    (op \in {"Address::default", "Address::try_from", "Address::try_new"}
        /\ IsOk(result))
    => ValidPart(result[2].user) /\ ValidPart(result[2].domain)

(***************************************************************************)
(* Mailbox names.                                                          *)
(***************************************************************************)
\* s without its leading and trailing whitespace
NonSpaceAt(s) == {i \in 1..Len(s) : s[i] \notin {9, 10, 11, 12, 13, 32, 133, 160}}
Trimmed(s) ==
    IF NonSpaceAt(s) = {} THEN <<>>
    ELSE SubSeq(s, Least(NonSpaceAt(s)), Greatest(NonSpaceAt(s)))

\* the text before the first '<', trimmed
CandidateName(s) == Trimmed(SubSeq(s, 1, Least(LtAt(s)) - 1))

\* r, a successful parse of s, names the trimmed text before the first
\* '<', or nothing when that text is empty
NameIsTrimmedPrefix(s, r) ==
    r[2].name = IF CandidateName(s) = <<>> THEN None
                ELSE Some(CandidateName(s))

\* C4: on a successful Mailbox parse the name is the text before the first
\* '<' with leading and trailing whitespace removed, and absent when that
\* trimmed text is empty.
C4_NameTrimmed ==
    (op = "Mailbox::try_from" /\ IsOk(result))
    => NameIsTrimmedPrefix(args[1], result)

\* the older parser of address.rs does what C4 says
C4_OlderParserTrims ==
    (op = "MailBox::from_str" /\ IsOk(result))
    => NameIsTrimmedPrefix(args[1], result)

\* C5: every Mailbox returned by Mailbox parse or try_new has a name that
\* is absent or passes Part validation, and a candidate name that fails
\* Part validation with e makes the operation return InvalidName(e).
C5_NameValid ==
    /\ (op \in {"Mailbox::try_from", "Mailbox::try_new"} /\ IsOk(result))
       => (result[2].name = None \/ ValidPart(result[2].name[1]))
    /\ (op = "Mailbox::try_new" /\ Len(args) = 3 /\ ~ValidPart(args[1]))
       => result = Err(<<"InvalidName", PartError(args[1])>>)
    /\ (/\ op = "Mailbox::try_from"
        /\ BracketClass(args[1], "WrongOrderAngleBrackets") = "proceed"
        /\ CandidateName(args[1]) # <<>>
        /\ ~ValidPart(CandidateName(args[1])))
       => result = Err(<<"InvalidName", PartError(CandidateName(args[1]))>>)

(***************************************************************************)
(* The Return-Path header.                                                 *)
(***************************************************************************)
\* C8: the body of the Return-Path header built from address a is
\* "<" a ">", its name is "Return-Path", and to_string is name ": " body.
C8_HeaderRendersPayload ==
    LET a == args[1] IN
    /\ op = "Header::name" => result = <<82, 101, 116, 117, 114, 110, 45, 80, 97, 116, 104>>
    /\ op = "Header::body" => result = <<60>> \o a \o <<62>>
    /\ op = "Header::to_string" =>
           result = Header_name(HeaderOfArgs) \o <<58, 32>>
                        \o Header_body(HeaderOfArgs)

(***************************************************************************)
(* The MessageBuilder.                                                     *)
(***************************************************************************)
\* the positions of the calls of method m, and the addresses they were given
CallsOf(m) == {i \in 1..Len(calls) : calls[i][1] = m}
GivenTo(m) == {calls[i][2] : i \in CallsOf(m)}

\* C6: build is enabled only in state (Yes, Yes), so only after both from
\* and to were called, and the Message it returns holds the address given
\* to from and the address given to to, whichever was called first; each
\* setter leaves the other slot as it was.
C6_BuildAfterBoth ==
    /\ (ENABLED MessageBuilder_build) => (from_set = "Yes" /\ to_set = "Yes")
    /\ \A i \in CallsOf("build") :
           /\ \E j \in CallsOf("from") : j < i
           /\ \E j \in CallsOf("to") : j < i
    /\ message # None =>
           /\ GivenTo("from") = {message[1].from}
           /\ GivenTo("to") = {message[1].to}
    /\ IF from_set = "Yes" THEN GivenTo("from") = {from}
       ELSE CallsOf("from") = {} /\ from = EmailAddress_default
    /\ IF to_set = "Yes" THEN GivenTo("to") = {to}
       ELSE CallsOf("to") = {} /\ to = EmailAddress_default

\* to was called before from, with another address, and build returned
C6_Witness ==
    /\ message # None
    /\ calls[1][1] = "to"
    /\ calls[2][1] = "from"
    /\ message[1].from = calls[2][2]
    /\ message[1].to = calls[1][2]
    /\ message[1].from # message[1].to

\* C7: from is enabled only while the from slot is unset and to only while
\* the to slot is unset, so each is called at most once; no step takes a
\* slot from set to unset or replaces the address of a set slot; the state
\* is one of (No,No), (Yes,No), (No,Yes), (Yes,Yes).
C7_OneWay ==
    /\ [](/\ (ENABLED SetFrom) => from_set = "No"
          /\ (ENABLED SetTo) => to_set = "No"
          /\ Cardinality(CallsOf("from")) <= 1
          /\ Cardinality(CallsOf("to")) <= 1
          /\ <<from_set, to_set>> \in {"No", "Yes"} \X {"No", "Yes"})
    /\ [][/\ from_set = "Yes" => (from_set' = "Yes" /\ from' = from)
          /\ to_set = "Yes" => (to_set' = "Yes" /\ to' = to)]_vars

\* the from slot is set and from is no longer offered, while to still is
C7_Witness ==
    /\ from_set = "Yes"
    /\ to_set = "No"
    /\ ~(ENABLED SetFrom)
    /\ ENABLED SetTo

====
